---- MODULE Spec2Model ----
(***************************************************************************)
(* Model of the python agent of the messaging platform SDK:                *)
(*   hmdev/messaging/agent/core/agent_connection.py   (AgentConnection)    *)
(*   hmdev/messaging/agent/api/impl/messaging_channel_api.py               *)
(*   hmdev/messaging/agent/api/impl/udp_client.py                          *)
(*   hmdev/messaging/agent/security/my_security.py                         *)
(*   hmdev/messaging/agent/util/session_recovery_utility.py                *)
(* One AgentConnection is driven by an application thread (connect,        *)
(* disconnect, send, receive, ...) while the receive pump thread started   *)
(* by receive_async runs _run_receive concurrently.                        *)
(***************************************************************************)
EXTENDS Integers, Sequences, FiniteSets, TLC

\* ------------------------------------------------------------------ values

\* Python None for string-valued fields.
NULL == "None"

\* No /pull of the pump is in flight.
NoPull == "no pull"

\* An absent (None) offset field.
NoOff == -1

\* An absent (None) time: a date or a connection time.
NoTime == -1

\* The date the server puts into a /connect answer.
ConnectDate == 1

\* Largest offset value a server response carries in the model.
MaxOff == 1

\* Cap of the counter of started pump threads (it saturates there).
MaxStarts == 2

\* Clock ticks in one second: the grain of time.time() for the HTTP throttle.
TicksPerSecond == 2

\* Session ids the server issues.
Sessions == {"S1"}

ChannelNames == {"ch"}
ChannelPasswords == {"pw"}
ChannelIds == {"C1"}

\* The name this agent connects with.
MyAgentName == "a1"

\* Another agent of the channel.
OtherAgentName == "a2"

\* A symmetric key no agent of the channel holds.
OtherSecret == "channel_other"

\* ------------------------------------------------------------------ crypto

DeriveChannelSecret(name, password) ==
    IF name = "ch" /\ password = "pw" THEN "channel_ch_pw" ELSE OtherSecret

\* Event contents.  kind "text": a plain string m.  kind "json": the JSON
\* document {cipher, hash} with cipher = AES(cm, ck) and hash = HMAC(hm, hk).
\* kind "none": Python None.
Text(m) == [kind |-> "text", m |-> m, cm |-> "-", ck |-> "-", hm |-> "-", hk |-> "-"]
NoneContent == [kind |-> "none", m |-> "-", cm |-> "-", ck |-> "-", hm |-> "-", hk |-> "-"]
Json(cm, ck, hm, hk) ==
    [kind |-> "json", m |-> "-", cm |-> cm, ck |-> ck, hm |-> hm, hk |-> hk]

\* MySecurity.encrypt_and_sign: cipher of the message and HMAC of the plaintext.
\* With a None key encrypt() yields "" and hash() yields None.
EncryptAndSign(m, key) ==
    IF key = NULL THEN Json("", NULL, NULL, NULL) ELSE Json(m, key, m, key)

\* The UTF-8 bytes of a key.  A channel secret is "channel_" and 43 base64
\* characters, shortened here to three bytes; "NUL" and "a_NUL" are the
\* strings "\0" and "a\0".
KeyBytes(key) ==
    CASE key = "" -> <<>>
      [] key = "NUL" -> <<0>>
      [] key = "a" -> <<97>>
      [] key = "a_NUL" -> <<97, 0>>
      [] key = "b" -> <<98>>
      [] key = "channel_ch_pw" -> <<99, 104, 1>>
      [] key = OtherSecret -> <<99, 104, 2>>

\* AesCtr.encrypt and AesCtr.decrypt with n_bits = 128: the password bytes,
\* cut or zero-padded to n_bytes; the AES key is a function of them alone.
n_bytes == 128 \div 8
PwBytes(key) ==
    LET pw_input == KeyBytes(key)
    IN [i \in 1..n_bytes |-> IF i <= Len(pw_input) THEN pw_input[i] ELSE 0]

\* The key of hmac.new: HMAC pads a key shorter than the block of SHA-256 with
\* zero bytes.
HmacBlockSize == 64
HmacKey(key) ==
    LET key_input == KeyBytes(key)
    IN [i \in 1..HmacBlockSize |-> IF i <= Len(key_input) THEN key_input[i] ELSE 0]

\* The keys of the model, with the AES key and the HMAC key of each.
ModelKeys == {"", "NUL", "a", "a_NUL", "b", "channel_ch_pw", OtherSecret}
AesKeyOf == [key \in ModelKeys |-> PwBytes(key)]
HmacKeyOf == [key \in ModelKeys |-> HmacKey(key)]

\* MySecurity.decrypt: AES-CTR under another AES key yields other bytes, and
\* an empty plaintext has an empty cipher that decrypts to "" under every
\* key; a None key raises inside AesCtr.decrypt and gives None.
Decrypt(content, key) ==
    IF key = NULL THEN NULL
    ELSE IF content.cm = "" THEN ""
    ELSE IF AesKeyOf[content.ck] = AesKeyOf[key] THEN content.cm ELSE "garbled"

\* MySecurity.decrypt_and_verify: None unless the content parses as JSON, the
\* cipher decrypts and the HMAC of the decrypted text under the key matches.
DecryptAndVerify(content, key) ==
    IF content.kind # "json" THEN NULL
    ELSE LET message == Decrypt(content, key) IN
         IF message = NULL THEN NULL
         ELSE IF ~(/\ content.hk # NULL
                   /\ content.hm = message
                   /\ HmacKeyOf[content.hk] = HmacKeyOf[key]) THEN NULL
         ELSE message

\* MySecurity.hash: HMAC-SHA256 of msg under key, kept symbolic.
Hash(msg, key) == [hm |-> msg, hk |-> key]
NoHash == [hm |-> NULL, hk |-> NULL]

\* RSA key pairs, named by their private key: the pair of a request_password
\* call in progress, and the pair of an earlier call.
PublicKeyOf(private_key) == IF private_key = "PRIV" THEN "PUB" ELSE "PUB_OLD"

\* The content of a password-request: json.dumps({requestId, publicKeyPem}).
PasswordRequestContent(request_id, pub_pem) ==
    [kind |-> "pwreq", m |-> request_id, cm |-> pub_pem, ck |-> "-", hm |-> "-", hk |-> "-"]

\* MySecurity.rsa_encrypt(public_key, json.dumps({channelName, channelPassword})),
\* the raw base64 content of a password-reply; a NULL name stands for a
\* plaintext that is the bare password.
RsaEncryptNothing(public_key, name, password) == Text(password)
RsaEncrypt(public_key, name, password) ==
    [kind |-> "rsa", m |-> NULL, cm |-> name, ck |-> public_key, hm |-> password, hk |-> "-"]

\* The JSON wrapper {requestId, cipher} around such a ciphertext.
Wrapped(request_id, cipher) == [cipher EXCEPT !.m = request_id]

\* MySecurity.rsa_decrypt succeeds on a ciphertext made for the public key of
\* this private key; everything else raises.
RsaDecrypts(private_key, content) ==
    /\ private_key # NULL
    /\ content.kind = "rsa"
    /\ content.ck = PublicKeyOf(private_key)

\* ------------------------------------------------------------------ events

\* An event as the server delivers it; Event gives one sent by the other agent
\* that carries no date, EventAt the same event dated by the server.
Event(type, to, encrypted, content) ==
    [type |-> type, to |-> to, encrypted |-> encrypted, content |-> content,
     from |-> OtherAgentName, date |-> NoTime]
EventAt(ev, date) == [ev EXCEPT !.date = date]

TheSecret == DeriveChannelSecret("ch", "pw")

EvPlain    == Event("chat-text", "*", FALSE, Text("hello"))
EvGood     == Event("chat-text", "*", TRUE, EncryptAndSign("hello", TheSecret))
EvWrongKey == Event("chat-text", "*", TRUE, EncryptAndSign("hello", OtherSecret))
EvTampered == Event("chat-text", "*", TRUE, Json("hello", TheSecret, "bye", TheSecret))
EvGarbage  == Event("chat-text", "*", TRUE, Text("xx"))

\* The events arrays a /pull answer carries in the model.
EventBatches ==
    {<<>>, <<EvPlain>>, <<EvGood>>, <<EvWrongKey>>, <<EvGarbage>>, <<EvTampered, EvGood>>}
EphemeralBatches == {<<>>, <<EvGood>>, <<EvGarbage>>}

Offsets == 0..MaxOff
MaybeOffsets == Offsets \cup {NoOff}

\* What the server answers to a /pull: a transport error or non-success
\* envelope ("error"), a long-poll timeout ("timeout"), or a success envelope.
\* The success envelopes vary in their events or in their ephemeral events
\* (with nextGlobalOffset 1 and no nextLocalOffset), or in their offsets (with
\* at most one plain event).
PullAnswers ==
    {[kind |-> k, events |-> <<>>, ephemeralEvents |-> <<>>,
      nextGlobalOffset |-> NoOff, nextLocalOffset |-> NoOff] : k \in {"error", "timeout"}}
    \cup
    [kind : {"data"}, events : EventBatches, ephemeralEvents : {<<>>},
     nextGlobalOffset : {1}, nextLocalOffset : {NoOff}]
    \cup
    [kind : {"data"}, events : {<<>>}, ephemeralEvents : EphemeralBatches,
     nextGlobalOffset : {1}, nextLocalOffset : {NoOff}]
    \cup
    [kind : {"data"}, events : {<<>>, <<EvPlain>>}, ephemeralEvents : {<<>>},
     nextGlobalOffset : MaybeOffsets, nextLocalOffset : MaybeOffsets]

NoAnswer ==
    [kind |-> "none", events |-> <<>>, ephemeralEvents |-> <<>>,
     nextGlobalOffset |-> NoOff, nextLocalOffset |-> NoOff]

\* An EventMessageResult; ok = FALSE stands for a None result.
NoResult ==
    [ok |-> FALSE, events |-> <<>>, ephemeralEvents |-> <<>>,
     nextGlobalOffset |-> NoOff, nextLocalOffset |-> NoOff]

\* MessagingChannelApi._verify_and_decrypt_message with a channel secret.
ApiVerifyAndDecryptWith(item, secret) ==
    IF item.encrypted
    THEN LET plain == DecryptAndVerify(item.content, secret) IN
         [item EXCEPT !.content = IF plain = NULL THEN NoneContent ELSE Text(plain),
                      !.encrypted = FALSE]
    ELSE item

\* AgentConnection._verify_and_decrypt_message with a channel secret.
AgentVerifyAndDecryptWith(ev, secret) ==
    IF ev.encrypted
    THEN LET plain == DecryptAndVerify(ev.content, secret) IN
         IF plain # NULL
         THEN [ev EXCEPT !.content = Text(plain), !.encrypted = FALSE]
         ELSE ev
    ELSE ev

\* MessagingChannelApi.receive, from the answer of the POST /pull on.
ApiReceiveErrorIsEmpty(answer, secret) ==
    CASE answer.kind = "error" -> [NoResult EXCEPT !.ok = TRUE]
      [] answer.kind = "timeout" -> [NoResult EXCEPT !.ok = TRUE]
      [] OTHER ->
           LET dec(item) == ApiVerifyAndDecryptWith(item, secret) IN
           [ok |-> TRUE,
            events |-> [i \in 1..Len(answer.events) |-> dec(answer.events[i])],
            ephemeralEvents |->
                [i \in 1..Len(answer.ephemeralEvents) |-> dec(answer.ephemeralEvents[i])],
            nextGlobalOffset |-> answer.nextGlobalOffset,
            nextLocalOffset |-> answer.nextLocalOffset]
ApiReceiveWith(answer, secret) ==
    CASE answer.kind = "error" -> NoResult
      [] answer.kind = "timeout" -> [NoResult EXCEPT !.ok = TRUE]
      [] OTHER ->
           LET dec(item) == ApiVerifyAndDecryptWith(item, secret) IN
           [ok |-> TRUE,
            events |-> [i \in 1..Len(answer.events) |-> dec(answer.events[i])],
            ephemeralEvents |->
                [i \in 1..Len(answer.ephemeralEvents) |-> dec(answer.ephemeralEvents[i])],
            nextGlobalOffset |-> answer.nextGlobalOffset,
            nextLocalOffset |-> answer.nextLocalOffset]

\* AgentConnection.receive, from the transport's result on: the events (not
\* the ephemeral ones) pass the agent's own verify-and-decrypt.
AgentReceiveWith(result, secret) ==
    IF ~result.ok THEN result
    ELSE LET dec(ev) == AgentVerifyAndDecryptWith(ev, secret) IN
         [result EXCEPT !.events =
             [i \in 1..Len(result.events) |-> dec(result.events[i])]]

\* ------------------------------------------------------------------ state

VARIABLES
    \* AgentConnection
    session_id,              \* _session_id
    ready_state,             \* _ready_state
    channel_name,            \* _channel_name
    channel_password,        \* _channel_password
    channel_secret,          \* channel_secret
    key_pair,                \* _key_pair
    pending_private_key,     \* _pending_private_key
    pending_request_id,      \* _pending_request_id
    initial_receive_config,  \* initial_receive_config
    current_receive_config,  \* current_receive_config
    connection_time,         \* connection_time
    password_request_handler, \* password_request_handler: what the callable does
    receive_thread,          \* _receive_thread is not None
    \* MessagingChannelApi and its UdpClient
    api_channel_secret,      \* channel_secret
    api_ready_state,         \* ready_state
    api_session_id,          \* session_id
    udp_closed,              \* the datagram socket has been closed
    api_channel_password,    \* channel_password, an attribute a password reply adds
    \* session_recovery_utility: the files under ~/.agent_sessions
    store,
    \* the application thread
    appPc,                   \* where the application thread is
    call_key,                \* channel_id or channel_name of the connect in progress
    lastOp,                  \* the operation called last
    lastResult,              \* what it returned
    wire,                    \* the requests and datagrams it sent
    \* the receive pump thread
    pumpPc,                  \* where _run_receive is
    pumpStarts,              \* threads started by receive_async
    offset_range,            \* the pump's ReceiveConfig
    raw,                     \* the answer to the pump's pull
    resp,                    \* the EventMessageResult receive() returned
    handled,                 \* the events given to the handler in this round
    pullSid,                 \* sessionId of the pump's POST /pull in flight
    pump_wire,               \* the requests the pump sent for its last answer
    caught,                  \* where the pump caught an exception in this round
    \* HttpClient
    elapsed,                 \* time.time() - _last_window_start, in ticks, capped
    requests_in_window,      \* _requests_in_window
    passed,                  \* requests that left _throttle, per tick of the last second
    \* threads that call connect at the same time
    connPc,                  \* where each thread is in _connect_internal
    connArgs,                \* the arguments and the session id of its api.connect
    connects,                \* sessions obtained since the last successful disconnect
    \* MySecurity, called on its own
    sealInput,               \* the message and the key of the last encrypt_and_sign
    sealed,                  \* what it returned
    openKey,                 \* the key of the last decrypt_and_verify of it
    opened,                  \* what that returned
    \* threads that call receive_async at the same time
    asyncPc                  \* where each thread is in receive_async

agentVars ==
    <<session_id, ready_state, channel_name, channel_password, channel_secret,
      key_pair, pending_private_key, pending_request_id,
      initial_receive_config, current_receive_config, connection_time,
      password_request_handler>>
apiVars ==
    <<api_channel_secret, api_ready_state, api_session_id, udp_closed,
      api_channel_password>>
appVars == <<appPc, call_key, lastOp, lastResult, wire>>
pumpVars == <<pumpPc, offset_range, raw, resp, handled, pullSid, pump_wire, caught>>
httpVars == <<elapsed, requests_in_window, passed>>
\* What the operations of AgentConnection leave alone.
connectorVars == <<connPc, connArgs>>
cryptoVars == <<sealInput, sealed, openKey, opened>>
restVars == <<cryptoVars, asyncPc>>
quietVars == <<httpVars, connectorVars, connects, restVars>>
vars == <<agentVars, apiVars, appVars, pumpVars, receive_thread, pumpStarts, store,
          httpVars, connectorVars, connects, restVars>>

StoreKeys == ChannelIds \cup ChannelNames

\* The threads of the application that call connect at the same time, and the
\* arguments of a thread that is not inside connect.
ConnectThreads == {1, 2}
NoCall == [name |-> NULL, pw |-> NULL, sid |-> NULL]
NoInput == [m |-> NULL, key |-> NULL]

\* A ReceiveConfig; the limit is DEFAULT_RECEIVE_LIMIT everywhere.
DEFAULT_RECEIVE_LIMIT == 20
ReceiveConfig(g, l) == [globalOffset |-> g, localOffset |-> l, limit |-> DEFAULT_RECEIVE_LIMIT]
NoConfig == [globalOffset |-> NoOff, localOffset |-> NoOff, limit |-> 0]

\* An outbound HTTP request or UDP datagram.
Req(path, sid, cid, name, pwhash, type, enc, content) ==
    [path |-> path, sessionId |-> sid, channelId |-> cid, channelName |-> name,
     channelPassword |-> pwhash, type |-> type, encrypted |-> enc, content |-> content]
PlainReq(path, sid) == Req(path, sid, NULL, NULL, NoHash, NULL, FALSE, NoneContent)
PushReq(path, sid, type, enc, content) == Req(path, sid, NULL, NULL, NoHash, type, enc, content)

Init ==
    /\ session_id = NULL
    /\ ready_state = FALSE
    /\ channel_name = NULL
    /\ channel_password = NULL
    /\ channel_secret = NULL
    /\ key_pair = NULL
    /\ pending_private_key = NULL
    /\ pending_request_id = NULL
    /\ initial_receive_config = NoConfig
    /\ current_receive_config = NoConfig
    /\ connection_time = NoTime
    /\ password_request_handler = "none"
    /\ receive_thread = FALSE
    /\ api_channel_secret = NULL
    /\ api_ready_state = FALSE
    /\ api_session_id = NULL
    /\ udp_closed = FALSE
    /\ api_channel_password = NULL
    /\ store \in [StoreKeys -> Sessions \cup {NULL}]
    /\ appPc = "idle"
    /\ call_key = NULL
    /\ lastOp = "init"
    /\ lastResult = "none"
    /\ wire = <<>>
    /\ pumpPc = "none"
    /\ pumpStarts = 0
    /\ offset_range = NoConfig
    /\ raw = NoAnswer
    /\ resp = NoResult
    /\ handled = <<>>
    /\ pullSid = NoPull
    /\ pump_wire = <<>>
    /\ caught = {}
    /\ elapsed = 0
    /\ requests_in_window = 0
    /\ passed = [i \in 0..(TicksPerSecond - 1) |-> 0]
    /\ connPc = [t \in ConnectThreads |-> "idle"]
    /\ connArgs = [t \in ConnectThreads |-> NoCall]
    /\ connects = 0
    /\ sealInput = NoInput
    /\ sealed = NoneContent
    /\ openKey = NULL
    /\ opened = NULL
    /\ asyncPc = [t \in ConnectThreads |-> "idle"]

\* AgentConnection.is_ready
IsReadySessionOnly == session_id # NULL
IsReady == ready_state /\ session_id # NULL

\* The guard of _connect_internal that rejects a connect while connected.
AlreadyConnectedNever == FALSE
AlreadyConnected == ready_state /\ session_id # NULL

\* ------------------------------------------------------------------ connect

\* The "state" object of a /connect answer, as the server sends it.
ServerStates ==
    {[present |-> FALSE, channelId |-> NULL,
      globalOffset |-> NoOff, localOffset |-> NoOff, originalGlobalOffset |-> NoOff],
     [present |-> TRUE, channelId |-> "C1",
      globalOffset |-> 2, localOffset |-> 1, originalGlobalOffset |-> 1]}

\* MessagingChannelApi.connect builds the ChannelState from topicName,
\* channelId, channelName and channelPassword only: the offsets of the
\* dataclass keep their default None.
ChannelStateOf(md) ==
    [md EXCEPT !.globalOffset = NoOff, !.localOffset = NoOff,
               !.originalGlobalOffset = NoOff]

OrZero(x) == IF x = NoOff THEN 0 ELSE x

\* _connect_internal: initial_receive_config from the ConnectResponse state.
InitialConfigOf(state) ==
    LET ogo == IF state.present THEN state.originalGlobalOffset ELSE NoOff
        go  == IF state.present THEN state.globalOffset ELSE NoOff
        start_offset == IF ogo # NoOff THEN ogo ELSE OrZero(go)
    IN IF go # NoOff \/ ogo # NoOff
       THEN ReceiveConfig(start_offset, 0)
       ELSE ReceiveConfig(0, 0)

\* _connect_internal: current_receive_config from the ConnectResponse state.
CurrentConfigOf(state) ==
    LET ogo == IF state.present THEN state.originalGlobalOffset ELSE NoOff
        go  == IF state.present THEN state.globalOffset ELSE NoOff
        lo  == IF state.present THEN state.localOffset ELSE NoOff
    IN IF go # NoOff \/ ogo # NoOff
       THEN ReceiveConfig(OrZero(go), OrZero(lo))
       ELSE ReceiveConfig(0, 0)

\* What the server answers to /connect: the request fails ("transport"), a
\* non-success envelope ("error"), or a success envelope whose data carries
\* the session id sid (NULL: no sessionId in it).
ConnectAnswers ==
    {[kind |-> "transport", sid |-> NULL, date |-> NoTime],
     [kind |-> "error", sid |-> NULL, date |-> NoTime]}
    \cup [kind : {"success"}, sid : Sessions \cup {NULL}, date : {ConnectDate}]

\* The requests MessagingChannelApi.connect sends for these arguments.
ConnectRequestsGiveUp(cid, name, pw, sid0, createOk) ==
    IF cid # NULL
    THEN <<Req("/connect", sid0, cid, NULL, NoHash, NULL, FALSE, NoneContent)>>
    ELSE IF name # NULL /\ pw # NULL
    THEN LET pwhash == Hash(pw, DeriveChannelSecret(name, pw)) IN
         <<Req("/create-channel", NULL, NULL, name, pwhash, NULL, FALSE, NoneContent)>>
         \o IF createOk
            THEN <<Req("/connect", sid0, "C1", name, pwhash, NULL, FALSE, NoneContent)>>
            ELSE <<>>
    ELSE <<>>
ConnectRequests(cid, name, pw, sid0, createOk) ==
    IF cid # NULL
    THEN <<Req("/connect", sid0, cid, NULL, NoHash, NULL, FALSE, NoneContent)>>
    ELSE IF name # NULL /\ pw # NULL
    THEN LET pwhash == Hash(pw, DeriveChannelSecret(name, pw)) IN
         <<Req("/create-channel", NULL, NULL, name, pwhash, NULL, FALSE, NoneContent),
           Req("/connect", sid0, IF createOk THEN "C1" ELSE NULL, name, pwhash,
               NULL, FALSE, NoneContent)>>
    ELSE <<>>

\* The password-request event request_password broadcasts.
PasswordRequestPush(sid) ==
    PushReq("/push", sid, "password-request", FALSE,
            PasswordRequestContent("REQ", PublicKeyOf("PRIV")))

\* connect(channelName, channelPassword, agentName, channelId=cid,
\* checkLastSession=checkLast) -> _connect_internal.
Connect(cid, name, pw, checkLast, createOk, answer, md) ==
    /\ appPc = "idle"
    /\ lastOp' = "connect"
    /\ IF AlreadyConnected
       THEN \* raise Exception("Agent ... is already connected with session ...")
            /\ lastResult' = "raised"
            /\ wire' = <<>>
            /\ UNCHANGED <<agentVars, apiVars, store, appPc, call_key, connects>>
       ELSE IF session_id = NULL /\ checkLast /\ cid = NULL /\ name = NULL
       THEN \* Sess.load_session_id(None) raises out of connect
            /\ lastResult' = "raised"
            /\ wire' = <<>>
            /\ UNCHANGED <<agentVars, apiVars, store, appPc, call_key, connects>>
       ELSE
         LET key  == IF cid # NULL THEN cid ELSE name
             sid0 == IF session_id = NULL /\ checkLast THEN store[key] ELSE session_id
             sent == cid # NULL \/ (name # NULL /\ pw # NULL)
             derived == cid = NULL /\ name # NULL /\ pw # NULL
             apiSecret1 == IF derived THEN DeriveChannelSecret(name, pw)
                           ELSE api_channel_secret
             kind == IF sent THEN answer.kind ELSE "transport"
             sid  == IF kind = "success" THEN answer.sid ELSE NULL
             secret1 == IF name # NULL /\ pw # NULL THEN DeriveChannelSecret(name, pw)
                        ELSE channel_secret
             apiSecret2 == IF name # NULL /\ pw # NULL THEN secret1 ELSE apiSecret1
             askPassword ==
                 secret1 = NULL /\ apiSecret2 = NULL /\ api_channel_password = NULL
             waits == askPassword /\ pw = NULL
         IN
         /\ channel_name' = name
         /\ channel_password' = pw
         /\ key_pair' = "KP"
         /\ api_ready_state' = IF kind = "transport" THEN api_ready_state ELSE TRUE
         /\ api_session_id' = IF kind = "transport" THEN api_session_id ELSE sid
         /\ UNCHANGED <<udp_closed, api_channel_password, password_request_handler>>
         /\ IF sid # NULL
            THEN /\ session_id' = sid
                 /\ connection_time' = answer.date
                 /\ ready_state' = TRUE
                 /\ connects' = connects + 1
                 /\ initial_receive_config' = InitialConfigOf(ChannelStateOf(md))
                 /\ current_receive_config' = CurrentConfigOf(ChannelStateOf(md))
                 /\ channel_secret' = secret1
                 /\ api_channel_secret' = apiSecret2
                 /\ IF waits
                    THEN \* request_password: broadcast and wait for the reply
                         /\ pending_private_key' = "PRIV"
                         /\ pending_request_id' = "REQ"
                         /\ wire' = ConnectRequests(cid, name, pw, sid0, createOk)
                                      \o <<PasswordRequestPush(sid)>>
                         /\ appPc' = "connect_pw_wait"
                         /\ call_key' = key
                         /\ lastResult' = "pending"
                         /\ UNCHANGED store
                    ELSE /\ wire' = ConnectRequests(cid, name, pw, sid0, createOk)
                         /\ store' = [store EXCEPT ![key] = sid]
                         /\ lastResult' = "true"
                         /\ UNCHANGED <<pending_private_key, pending_request_id,
                                        appPc, call_key>>
            ELSE /\ session_id' = sid0
                 /\ api_channel_secret' = apiSecret1
                 /\ wire' = ConnectRequests(cid, name, pw, sid0, createOk)
                 /\ lastResult' = "false"
                 /\ UNCHANGED <<ready_state, channel_secret, initial_receive_config,
                                current_receive_config, pending_private_key,
                                pending_request_id, connection_time, store,
                                appPc, call_key, connects>>
    /\ UNCHANGED <<pumpVars, receive_thread, pumpStarts, httpVars, connectorVars, restVars>>

\* The connect calls of the model.
\* The answers that matter to a connect call: /create-channel is only posted
\* for a name and a password without a channel id, /connect only with a
\* channel id or with both, and only a success envelope carries a state.
NoServerState == CHOOSE md \in ServerStates : ~md.present
ConnectOutcomes(cid, name, pw) ==
    LET creates == cid = NULL /\ name # NULL /\ pw # NULL
        sent == cid # NULL \/ creates
    IN {o \in [createOk : BOOLEAN, answer : ConnectAnswers, md : ServerStates] :
          /\ (~creates => o.createOk)
          /\ (~sent => o.answer.kind = "transport")
          /\ (o.answer.sid = NULL => o.md = NoServerState)}

ConnectCall ==
    \E cid \in ChannelIds \cup {NULL}, name \in ChannelNames \cup {NULL},
       pw \in ChannelPasswords \cup {NULL}, checkLast \in BOOLEAN :
      \E o \in ConnectOutcomes(cid, name, pw) :
        Connect(cid, name, pw, checkLast, o.createOk, o.answer, o.md)

\* connect(name, pw, checkLastSession=checkLast) called by thread t, up to the
\* requests of MessagingChannelApi.connect: the guard, the session id of the
\* recovery store, the name, the password and the key pair, and the secret
\* the transport derives before it posts.
ConnectBegin(t, name, pw, checkLast) ==
    /\ connPc[t] = "idle"
    /\ lastOp' = "connect"
    /\ IF AlreadyConnected
       THEN /\ lastResult' = "raised"
            /\ wire' = <<>>
            /\ UNCHANGED <<agentVars, apiVars, connectorVars>>
       ELSE LET sid0 == IF session_id = NULL /\ checkLast THEN store[name]
                        ELSE session_id
            IN /\ session_id' = sid0
               /\ channel_name' = name
               /\ channel_password' = pw
               /\ key_pair' = "KP"
               /\ api_channel_secret' = DeriveChannelSecret(name, pw)
               /\ connPc' = [connPc EXCEPT ![t] = "posted"]
               /\ connArgs' = [connArgs EXCEPT ![t] = [name |-> name, pw |-> pw,
                                                       sid |-> sid0]]
               /\ lastResult' = "pending"
               /\ wire' = <<>>
               /\ UNCHANGED <<ready_state, channel_secret, pending_private_key,
                              pending_request_id, initial_receive_config,
                              current_receive_config, connection_time,
                              password_request_handler, api_ready_state,
                              api_session_id, udp_closed, api_channel_password>>
    /\ UNCHANGED <<store, appPc, call_key, pumpVars, receive_thread, pumpStarts,
                   httpVars, connects, restVars>>

\* The same call from the answers to /create-channel and /connect on.  The
\* call carried a name and a password, so the secret is derived from the
\* credentials the connection holds and no password is requested.
ConnectEnd(t, createOk, answer, md) ==
    /\ connPc[t] = "posted"
    /\ LET call == connArgs[t]
           sid  == IF answer.kind = "success" THEN answer.sid ELSE NULL
           secret1 == IF channel_name # NULL /\ channel_password # NULL
                      THEN DeriveChannelSecret(channel_name, channel_password)
                      ELSE channel_secret
       IN /\ api_ready_state' = IF answer.kind = "transport" THEN api_ready_state
                                ELSE TRUE
          /\ api_session_id' = IF answer.kind = "transport" THEN api_session_id
                               ELSE sid
          /\ wire' = ConnectRequests(NULL, call.name, call.pw, call.sid, createOk)
          /\ IF sid # NULL
             THEN /\ session_id' = sid
                  /\ connection_time' = answer.date
                  /\ ready_state' = TRUE
                  /\ connects' = connects + 1
                  /\ initial_receive_config' = InitialConfigOf(ChannelStateOf(md))
                  /\ current_receive_config' = CurrentConfigOf(ChannelStateOf(md))
                  /\ channel_secret' = secret1
                  /\ api_channel_secret' = secret1
                  /\ store' = [store EXCEPT ![call.name] = sid]
                  /\ lastResult' = "true"
             ELSE /\ lastResult' = "false"
                  /\ UNCHANGED <<session_id, connection_time, ready_state, connects,
                                 initial_receive_config, current_receive_config,
                                 channel_secret, api_channel_secret, store>>
    /\ connPc' = [connPc EXCEPT ![t] = "idle"]
    /\ connArgs' = [connArgs EXCEPT ![t] = NoCall]
    /\ lastOp' = "connect"
    /\ UNCHANGED <<channel_name, channel_password, key_pair, pending_private_key,
                   pending_request_id, password_request_handler, udp_closed,
                   api_channel_password, appPc, call_key, pumpVars, receive_thread,
                   pumpStarts, httpVars, restVars>>

\* ------------------------------------------------------------ auto events

\* What the password_request_handler attribute holds: nothing ("none"), or a
\* callable that returns True, returns False, returns None or raises.
Handlers == {"none", "returns_true", "returns_false", "returns_none", "raises"}

\* _handle_password_request: allowed starts True, becomes bool(handler(...))
\* when a callable is set, and stays True when the callable raises.
Allowed(handler) == handler \in {"none", "returns_true", "raises"}

\* The test of _check_auto_events on the date of a reserved event.
Newer(ev, time) == time = NoTime \/ (ev.date # NoTime /\ ev.date > time)

\* The fields _check_auto_events may write, and the requests it sends.
AutoState ==
    [name |-> channel_name, password |-> channel_password, secret |-> channel_secret,
     apiSecret |-> api_channel_secret, apiPassword |-> api_channel_password,
     sent |-> <<>>]

\* The password-reply a responder sends.
PasswordReplyPush(sid, requester_pub, name, password) ==
    PushReq("/push", sid, "password-reply", FALSE, RsaEncrypt(requester_pub, name, password))

\* _handle_password_request(ev)
HandlePasswordRequest(ev, st) ==
    LET requester_pub == IF ev.content.kind = "pwreq" THEN ev.content.cm ELSE NULL
    IN IF /\ Allowed(password_request_handler)
          /\ st.password # NULL
          /\ st.name # NULL
          /\ requester_pub # NULL
       THEN [st EXCEPT !.sent = Append(@, PasswordReplyPush(session_id, requester_pub,
                                                          st.name, st.password))]
       ELSE st

\* _handle_password_reply(ev): needs content and a pending private key; takes
\* the cipher from the JSON wrapper or the raw content, whatever requestId the
\* wrapper carries.
HandlePasswordReply(ev, st) ==
    IF ev.content.kind = "none" \/ pending_private_key = NULL THEN st
    ELSE IF ~RsaDecrypts(pending_private_key, ev.content) THEN st
    ELSE LET name1 == IF ev.content.cm # NULL /\ st.name = NULL
                      THEN ev.content.cm ELSE st.name
             password1 == ev.content.hm
         IN IF name1 # NULL /\ password1 # NULL
            THEN [st EXCEPT !.name = name1, !.password = password1,
                            !.secret = DeriveChannelSecret(name1, password1),
                            !.apiSecret = DeriveChannelSecret(name1, password1)]
            ELSE [st EXCEPT !.name = name1, !.password = password1,
                            !.apiPassword = password1]

\* _check_auto_events(events), over events[1..n].
RECURSIVE CheckAutoEvents(_, _)
CheckAutoEvents(events, n) ==
    IF n = 0 THEN AutoState
    ELSE LET st == CheckAutoEvents(events, n - 1)
             ev == events[n]
         IN IF ev.type = "password-request" /\ Newer(ev, connection_time)
            THEN HandlePasswordRequest(ev, st)
            ELSE IF /\ ev.type = "password-reply"
                    /\ Newer(ev, connection_time)
                    /\ ev.to = MyAgentName
            THEN HandlePasswordReply(ev, st)
            ELSE st

\* The writes of _check_auto_events to the agent and the transport.
ApplyAuto(st) ==
    /\ channel_name' = st.name
    /\ channel_password' = st.password
    /\ channel_secret' = st.secret
    /\ api_channel_secret' = st.apiSecret
    /\ api_channel_password' = st.apiPassword

\* ------------------------------------------------- application operations

\* What is left alone by an operation that only returns a value.
ReturnOnly(op, result, sent) ==
    /\ lastOp' = op
    /\ lastResult' = result
    /\ wire' = sent
    /\ UNCHANGED <<agentVars, store, appPc, call_key, pumpVars, receive_thread,
                   pumpStarts, quietVars>>

\* request_password: "clear pending key/request id after attempt".
PendingKept(pending) == pending
PendingAfterAttempt(pending) == NULL

\* The end of the reply wait of request_password (wait_for_password_reply
\* polls receive() with a dict, which MessagingChannelApi.receive answers
\* with None before sending anything, so the wait ends by its deadline), and
\* with it the end of the connect that called it.
RequestPasswordEnd ==
    /\ appPc \in {"pw_wait", "connect_pw_wait"}
    /\ pending_private_key' = PendingAfterAttempt(pending_private_key)
    /\ pending_request_id' = PendingAfterAttempt(pending_request_id)
    /\ IF appPc = "connect_pw_wait"
       THEN /\ store' = IF session_id # NULL
                        THEN [store EXCEPT ![call_key] = session_id]
                        ELSE store
            /\ lastResult' = "true"
       ELSE /\ lastResult' = "false"
            /\ UNCHANGED store
    /\ appPc' = "idle"
    /\ call_key' = NULL
    /\ UNCHANGED <<session_id, ready_state, channel_name, channel_password,
                   channel_secret, key_pair, initial_receive_config,
                   current_receive_config, connection_time,
                   password_request_handler, apiVars, lastOp, wire, pumpVars,
                   receive_thread, pumpStarts, quietVars>>

\* request_password()
RequestPassword ==
    /\ appPc = "idle"
    /\ IF ~IsReady
       THEN ReturnOnly("request_password", "false", <<>>) /\ UNCHANGED apiVars
       ELSE IF channel_password # NULL
       THEN ReturnOnly("request_password", "true", <<>>) /\ UNCHANGED apiVars
       ELSE /\ pending_private_key' = "PRIV"
            /\ pending_request_id' = "REQ"
            /\ wire' = <<PasswordRequestPush(session_id)>>
            /\ appPc' = "pw_wait"
            /\ lastOp' = "request_password"
            /\ lastResult' = "pending"
            /\ UNCHANGED <<session_id, ready_state, channel_name, channel_password,
                           channel_secret, key_pair, initial_receive_config,
                           current_receive_config, connection_time,
                           password_request_handler, apiVars, store, call_key,
                           pumpVars, receive_thread, pumpStarts, quietVars>>

\* disconnect(), up to the POST /disconnect of MessagingChannelApi.disconnect,
\* which closes the UDP client first.
DisconnectBegin ==
    /\ appPc = "idle"
    /\ IF ~IsReady
       THEN ReturnOnly("disconnect", "false", <<>>) /\ UNCHANGED apiVars
       ELSE /\ udp_closed' = TRUE
            /\ wire' = <<PlainReq("/disconnect", session_id)>>
            /\ appPc' = "disc_wait"
            /\ lastOp' = "disconnect"
            /\ lastResult' = "pending"
            /\ UNCHANGED <<agentVars, api_channel_secret, api_ready_state,
                           api_session_id, api_channel_password, store, call_key,
                           pumpVars, receive_thread, pumpStarts, quietVars>>

\* disconnect(), from the answer to POST /disconnect on.
DisconnectEnd(answer) ==
    /\ appPc = "disc_wait"
    /\ appPc' = "idle"
    /\ IF answer = "transport"
       THEN UNCHANGED <<api_ready_state, api_session_id>>
       ELSE api_ready_state' = FALSE /\ api_session_id' = NULL
    /\ IF answer = "success"
       THEN /\ session_id' = NULL
            /\ ready_state' = FALSE
            /\ pending_private_key' = NULL
            /\ pending_request_id' = NULL
            /\ key_pair' = NULL
            /\ connects' = 0
            /\ lastResult' = "true"
       ELSE /\ lastResult' = "false"
            /\ UNCHANGED <<session_id, ready_state, pending_private_key,
                           pending_request_id, key_pair, connects>>
    /\ UNCHANGED <<channel_name, channel_password, channel_secret,
                   initial_receive_config, current_receive_config,
                   connection_time, password_request_handler,
                   api_channel_secret, udp_closed, api_channel_password, store,
                   call_key, lastOp, wire, pumpVars, receive_thread, pumpStarts,
                   httpVars, connectorVars, restVars>>

\* send_message(msg): MessagingChannelApi.send encrypts with the transport's
\* channel secret when the agent holds a secret.
SendMessage(msg, answer) ==
    /\ appPc = "idle"
    /\ UNCHANGED apiVars
    /\ IF ~IsReady
       THEN ReturnOnly("send_message", "false", <<>>)
       ELSE LET encrypted == channel_secret # NULL
                content == IF encrypted THEN EncryptAndSign(msg, api_channel_secret)
                           ELSE Text(msg)
            IN ReturnOnly("send_message",
                          IF answer = "success" THEN "true" ELSE "false",
                          <<PushReq("/push", session_id, "chat-text", encrypted, content)>>)

\* udp_push_message(msg, destination): UdpClient.send fails on a closed socket.
UdpPushMessage(msg) ==
    /\ appPc = "idle"
    /\ UNCHANGED apiVars
    /\ IF ~IsReady
       THEN ReturnOnly("udp_push_message", "false", <<>>)
       ELSE IF udp_closed
       THEN ReturnOnly("udp_push_message", "false", <<>>)
       ELSE ReturnOnly("udp_push_message", "true",
                       <<PushReq("udp push", session_id, "chat-text", TRUE,
                                 EncryptAndSign(msg, api_channel_secret))>>)

\* What comes back for a "pull" datagram: nothing within the timeout, an
\* outer status other than ok, an inner status other than success, or data.
UdpAnswers ==
    {[kind |-> k, events |-> <<>>] : k \in {"timeout", "not_ok", "not_success"}}
    \cup {[kind |-> "data", events |-> e] : e \in {<<>>, <<EvGood>>}}
UdpTimeout == [kind |-> "timeout", events |-> <<>>]

\* MessagingChannelApi.udp_pull(session_id, offset_range)
UdpPullNoneOnFailure(answer, secret, config) ==
    IF answer.kind = "data"
    THEN [ok |-> TRUE,
          events |-> [i \in 1..Len(answer.events) |->
                         ApiVerifyAndDecryptWith(answer.events[i], secret)],
          ephemeralEvents |-> <<>>, nextGlobalOffset |-> 1, nextLocalOffset |-> NoOff]
    ELSE NoResult
UdpPullWith(answer, secret, config) ==
    IF answer.kind = "data"
    THEN [ok |-> TRUE,
          events |-> [i \in 1..Len(answer.events) |->
                         ApiVerifyAndDecryptWith(answer.events[i], secret)],
          ephemeralEvents |-> <<>>, nextGlobalOffset |-> 1, nextLocalOffset |-> NoOff]
    ELSE [ok |-> TRUE, events |-> <<>>, ephemeralEvents |-> <<>>,
          nextGlobalOffset |-> config.globalOffset, nextLocalOffset |-> NoOff]

\* udp_pull(offset_range): "none" is None, "empty" an EventMessageResult
\* without events, "value" one with events.  On a closed socket the datagram
\* is not sent and nothing comes back.
UdpPull(answer) ==
    /\ appPc = "idle"
    /\ UNCHANGED apiVars
    /\ IF ~IsReady
       THEN ReturnOnly("udp_pull", "none", <<>>)
       ELSE LET result == UdpPullWith(IF udp_closed THEN UdpTimeout ELSE answer,
                                      api_channel_secret, ReceiveConfig(0, 0))
            IN ReturnOnly("udp_pull",
                          IF ~result.ok THEN "none"
                          ELSE IF result.events = <<>> THEN "empty" ELSE "value",
                          IF udp_closed THEN <<>>
                          ELSE <<PlainReq("udp pull", session_id)>>)

\* get_active_agents()
GetActiveAgents(answer) ==
    /\ appPc = "idle"
    /\ UNCHANGED apiVars
    /\ IF ~IsReady
       THEN ReturnOnly("get_active_agents", "none", <<>>)
       ELSE ReturnOnly("get_active_agents",
                       IF answer = "transport" THEN "none" ELSE "value",
                       <<PlainReq("/list-agents", session_id)>>)

\* The agents a /list-agents answer lists, as AgentInfo(agentName, date,
\* meta): connectionTime is the entry of that name in meta, the item as the
\* server sent it.
AgentLists ==
    {<<>>,
     <<[agentName |-> "a1", date |-> 100, connectionTime |-> 100]>>,
     <<[agentName |-> "a0", date |-> 50, connectionTime |-> 50],
       [agentName |-> "a1", date |-> 100, connectionTime |-> 100]>>,
     <<[agentName |-> "a1", date |-> 200, connectionTime |-> 200],
       [agentName |-> "a0", date |-> 100, connectionTime |-> 100],
       [agentName |-> "a2", date |-> 300, connectionTime |-> 300]>>,
     <<[agentName |-> "a2", date |-> 300, connectionTime |-> 300],
       [agentName |-> "a1", date |-> 100, connectionTime |-> 100],
       [agentName |-> "a0", date |-> 200, connectionTime |-> 200]>>}

\* getattr(agent, 'connectionTime', None): AgentInfo has no such attribute.
ConnectionTimeOf(agent) == NoTime

\* The loop of is_host_agent over agents_info[1..n]: <<earliest_agent, earliest_time>>.
RECURSIVE EarliestOf(_, _)
EarliestOf(agents, n) ==
    IF n = 0 THEN <<MyAgentName, NoTime>>
    ELSE LET prev == EarliestOf(agents, n - 1)
             agent_name == agents[n].agentName
             agent_time == ConnectionTimeOf(agents[n])
             time1 == IF agent_name = MyAgentName THEN agent_time ELSE prev[2]
         IN IF agent_time # NoTime /\ (time1 = NoTime \/ agent_time < time1)
            THEN <<agent_name, agent_time>>
            ELSE <<prev[1], time1>>

\* is_host_agent()
IsHostAgent(answer, agents) ==
    /\ appPc = "idle"
    /\ UNCHANGED apiVars
    /\ IF ~IsReady
       THEN ReturnOnly("is_host_agent", "false", <<>>)
       ELSE LET is_host == IF answer = "transport" \/ Len(agents) = 0 THEN TRUE
                           ELSE EarliestOf(agents, Len(agents))[1] = MyAgentName
            IN ReturnOnly("is_host_agent", IF is_host THEN "true" ELSE "false",
                          <<PlainReq("/list-agents", session_id)>>)

\* receive(offset_range), called by the application.
Receive(answer) ==
    /\ appPc = "idle"
    /\ IF ~IsReady
       THEN ReturnOnly("receive", "none", <<>>) /\ UNCHANGED apiVars
       ELSE LET result == AgentReceiveWith(ApiReceiveWith(answer, api_channel_secret),
                                           channel_secret)
                st == IF result.ok THEN CheckAutoEvents(result.events, Len(result.events))
                      ELSE AutoState
            IN /\ lastOp' = "receive"
               /\ lastResult' = IF result.ok THEN "value" ELSE "none"
               /\ wire' = <<PlainReq("/pull", session_id)>> \o st.sent
               /\ ApplyAuto(st)
               /\ UNCHANGED <<session_id, ready_state, key_pair, pending_private_key,
                              pending_request_id, initial_receive_config,
                              current_receive_config, connection_time,
                              password_request_handler, api_ready_state,
                              api_session_id, udp_closed, store, appPc, call_key,
                              pumpVars, receive_thread, pumpStarts, quietVars>>

\* password_request_handler = h, the attribute the application assigns.
SetPasswordRequestHandler(h) ==
    /\ appPc = "idle"
    /\ password_request_handler' = h
    /\ lastOp' = "password_request_handler"
    /\ lastResult' = "none"
    /\ wire' = <<>>
    /\ UNCHANGED <<session_id, ready_state, channel_name, channel_password,
                   channel_secret, key_pair, pending_private_key, pending_request_id,
                   initial_receive_config, current_receive_config, connection_time,
                   apiVars, store, appPc, call_key, pumpVars, receive_thread,
                   pumpStarts, quietVars>>

\* ------------------------------------------------------------ receive pump

Min(a, b) == IF a < b THEN a ELSE b

\* The test of receive_async that decides whether a thread is started.
NoThreadAlways == TRUE
NoThread == ~receive_thread

\* receive_async(handler)
ReceiveAsync ==
    /\ appPc = "idle"
    /\ lastOp' = "receive_async"
    /\ lastResult' = "none"
    /\ wire' = <<>>
    /\ IF NoThread
       THEN /\ receive_thread' = TRUE
            /\ pumpStarts' = Min(pumpStarts + 1, MaxStarts)
            /\ pumpPc' = "init"
            /\ raw' = NoAnswer
            /\ resp' = NoResult
            /\ handled' = <<>>
            /\ pullSid' = NoPull
            /\ pump_wire' = <<>>
            /\ caught' = {}
            /\ UNCHANGED offset_range
       ELSE UNCHANGED <<receive_thread, pumpStarts, pumpVars>>
    /\ UNCHANGED <<agentVars, apiVars, store, appPc, call_key, quietVars>>

pumpFrame == <<agentVars, apiVars, appVars, receive_thread, pumpStarts, store,
               quietVars>>

\* _run_receive, before the loop: the starting offsets.
PumpInit ==
    /\ pumpPc = "init"
    /\ offset_range' =
         IF initial_receive_config # NoConfig
         THEN ReceiveConfig(OrZero(initial_receive_config.globalOffset),
                            OrZero(initial_receive_config.localOffset))
         ELSE ReceiveConfig(0, 0)
    /\ pumpPc' = "loop"
    /\ UNCHANGED <<raw, resp, handled, pullSid, pump_wire, caught, pumpFrame>>

\* The condition of the pump's while loop.
LoopForever == TRUE
LoopCondition == IsReady

\* _run_receive: while self.is_ready()
PumpLoop ==
    /\ pumpPc = "loop"
    /\ pumpPc' = IF LoopCondition THEN "rcheck" ELSE "done"
    /\ handled' = <<>>
    /\ caught' = {}
    /\ UNCHANGED <<offset_range, raw, resp, pullSid, pump_wire, pumpFrame>>

\* receive(): if not self.is_ready(): return None  (then the pump sleeps)
PumpReceiveCheck ==
    /\ pumpPc = "rcheck"
    /\ pumpPc' = IF IsReady THEN "rsend" ELSE "sleep"
    /\ UNCHANGED <<offset_range, raw, resp, handled, pullSid, pump_wire, caught,
                   pumpFrame>>

\* receive(): self._channel_api.receive(self._session_id, offset_range) reads
\* the session id and posts /pull.
PumpSend ==
    /\ pumpPc = "rsend"
    /\ pullSid' = session_id
    /\ pumpPc' = "rwait"
    /\ UNCHANGED <<offset_range, raw, resp, handled, pump_wire, caught, pumpFrame>>

\* The exceptions receive() meets and catches on an answer: decrypt-and-verify
\* fails on an encrypted item, and the policy callback raises on a
\* password-request that _check_auto_events handles.
CaughtInReceive(answer) ==
    {"decrypt" : i \in {j \in 1..Len(answer.events) :
                           /\ answer.events[j].encrypted
                           /\ DecryptAndVerify(answer.events[j].content,
                                               api_channel_secret) = NULL}}
    \cup
    {"decrypt" : i \in {j \in 1..Len(answer.ephemeralEvents) :
                           /\ answer.ephemeralEvents[j].encrypted
                           /\ DecryptAndVerify(answer.ephemeralEvents[j].content,
                                               api_channel_secret) = NULL}}
    \cup
    {"auto" : i \in {j \in 1..Len(answer.events) :
                        /\ password_request_handler = "raises"
                        /\ answer.events[j].type = "password-request"
                        /\ Newer(answer.events[j], connection_time)}}

\* The answer to the pump's /pull, decrypted by the transport and by
\* receive(), which then runs _check_auto_events on the events.
PumpAnswer(answer) ==
    /\ pumpPc = "rwait"
    /\ LET result == AgentReceiveWith(ApiReceiveWith(answer, api_channel_secret),
                                      channel_secret)
           st == IF result.ok THEN CheckAutoEvents(result.events, Len(result.events))
                 ELSE AutoState
       IN /\ IF result.ok
             THEN raw' = answer /\ resp' = result /\ pumpPc' = "process"
             ELSE UNCHANGED <<raw, resp>> /\ pumpPc' = "sleep"
          /\ ApplyAuto(st)
          /\ pump_wire' = st.sent
          /\ caught' = IF result.ok THEN CaughtInReceive(answer) ELSE {}
    /\ pullSid' = NoPull
    /\ UNCHANGED <<offset_range, handled, session_id, ready_state, key_pair,
                   pending_private_key, pending_request_id, initial_receive_config,
                   current_receive_config, connection_time, password_request_handler,
                   api_ready_state, api_session_id, udp_closed, appVars,
                   receive_thread, pumpStarts, store, quietVars>>

\* The offsets of the next pull after a result with events.
PromoteResetAbsent(config, result) ==
    ReceiveConfig(OrZero(result.nextGlobalOffset), OrZero(result.nextLocalOffset))
Promote(config, result) ==
    ReceiveConfig(IF result.nextGlobalOffset # NoOff THEN result.nextGlobalOffset
                  ELSE config.globalOffset,
                  IF result.nextLocalOffset # NoOff THEN result.nextLocalOffset
                  ELSE config.localOffset)

\* _run_receive: what handler.on_message_events gets in one round, call after
\* call.
DeliveredPersistentFirst(result) == result.events \o result.ephemeralEvents
Delivered(result) == result.ephemeralEvents \o result.events

\* What handler.on_message_events does, and where _run_receive goes on after
\* the call: `except Exception` logs a warning and the loop continues.
HandlerOutcomes == {"returns", "raises"}
HandlerEscapes(raised, next) == IF raised THEN "done" ELSE next
AfterHandler(raised, next) == next

\* _run_receive: the ephemeral events and then the events go to the handler;
\* with events the offsets are updated and the pump sleeps.
PumpProcess(ephemeral_outcome, events_outcome) ==
    /\ pumpPc = "process"
    /\ handled' = Delivered(resp)
    /\ LET raised == \/ resp.ephemeralEvents # <<>> /\ ephemeral_outcome = "raises"
                     \/ resp.events # <<>> /\ events_outcome = "raises"
       IN /\ caught' = caught \cup (IF raised THEN {"handler"} ELSE {})
          /\ IF resp.events # <<>>
             THEN /\ offset_range' = Promote(offset_range, resp)
                  /\ pumpPc' = AfterHandler(raised, "sleep")
             ELSE /\ UNCHANGED offset_range
                  /\ pumpPc' = AfterHandler(raised, "loop")
    /\ raw' = NoAnswer
    /\ resp' = NoResult
    /\ pump_wire' = <<>>
    /\ UNCHANGED <<pullSid, pumpFrame>>

\* sleep(0.5)
PumpSleep ==
    /\ pumpPc = "sleep"
    /\ pumpPc' = "loop"
    /\ UNCHANGED <<offset_range, raw, resp, handled, pullSid, pump_wire, caught,
                   pumpFrame>>

PumpStep ==
    \/ PumpInit
    \/ PumpLoop
    \/ PumpReceiveCheck
    \/ PumpSend
    \/ \E answer \in PullAnswers : PumpAnswer(answer)
    \/ \E eo \in HandlerOutcomes, po \in HandlerOutcomes : PumpProcess(eo, po)
    \/ PumpSleep

\* ------------------------------------------------------------ specification

\* ------------------------------------------------------------ HttpClient

\* HttpClient.__init__(remote_url, requests_limit=12)
requests_limit == 12

\* The requests of the last second, d ticks later.
Shift(p, d) == [i \in 0..(TicksPerSecond - 1) |-> IF i >= d THEN p[i - d] ELSE 0]

\* One more request leaves _throttle at the current tick.
Pass(p) == [p EXCEPT ![0] = @ + 1]

\* HttpClient.request: _throttle(), then the request goes out.  A window
\* older than one second is restarted; the request that exceeds the limit
\* sleeps to the end of the window and opens the next one as its first.
HttpRequest ==
    /\ LET fresh == elapsed >= TicksPerSecond
           age   == IF fresh THEN 0 ELSE elapsed
           count == (IF fresh THEN 0 ELSE requests_in_window) + 1
           sleep_time == IF TicksPerSecond - age > 0 THEN TicksPerSecond - age ELSE 0
       IN IF count > requests_limit
          THEN /\ elapsed' = 0
               /\ requests_in_window' = 1
               /\ passed' = Pass(Shift(passed, sleep_time))
          ELSE /\ elapsed' = age
               /\ requests_in_window' = count
               /\ passed' = Pass(passed)
    /\ UNCHANGED <<agentVars, apiVars, appVars, pumpVars, receive_thread, pumpStarts,
                   store, connectorVars, connects, restVars>>

\* The wall clock advances by one tick between two requests.
ClockTick ==
    /\ elapsed' = Min(elapsed + 1, TicksPerSecond)
    /\ passed' = Shift(passed, 1)
    /\ UNCHANGED <<requests_in_window, agentVars, apiVars, appVars, pumpVars,
                   receive_thread, pumpStarts, store, connectorVars, connects, restVars>>

ThrottleStep == HttpRequest \/ ClockTick

\* --------------------------------------------------- MySecurity on its own

\* The messages and the keys MySecurity is called with.
Plaintexts == {"", "hello", "bye"}
CryptoKeys == {"", "NUL", "a", "a_NUL", "b"}

\* MySecurity.encrypt_and_sign(m, key)
EncryptAndSignCall(m, key) ==
    /\ sealInput' = [m |-> m, key |-> key]
    /\ sealed' = EncryptAndSign(m, key)
    /\ openKey' = NULL
    /\ opened' = NULL
    /\ UNCHANGED <<agentVars, apiVars, appVars, pumpVars, receive_thread, pumpStarts,
                   store, httpVars, connectorVars, connects, asyncPc>>

\* MySecurity.decrypt_and_verify(sealed, key)
DecryptAndVerifyCall(key) ==
    /\ sealInput # NoInput
    /\ openKey' = key
    /\ opened' = DecryptAndVerify(sealed, key)
    /\ UNCHANGED <<sealInput, sealed, asyncPc>>
    /\ UNCHANGED <<agentVars, apiVars, appVars, pumpVars, receive_thread, pumpStarts,
                   store, httpVars, connectorVars, connects>>

CryptoStep ==
    \/ \E m \in Plaintexts, key \in CryptoKeys : EncryptAndSignCall(m, key)
    \/ \E key \in CryptoKeys : DecryptAndVerifyCall(key)

CryptoSpec == Init /\ [][CryptoStep]_vars

\* One HttpClient, its callers and the clock.
ThrottleSpec == Init /\ [][ThrottleStep]_vars

\* ---------------------------------------------------------- specifications

HttpAnswers == {"success", "error", "transport"}

\* The answers the application's own receive() calls get.
ReceiveAnswers ==
    {a \in PullAnswers :
        \/ a.kind # "data"
        \/ /\ a.events = <<EvGood>> /\ a.ephemeralEvents = <<>>
           /\ a.nextGlobalOffset = 1 /\ a.nextLocalOffset = NoOff}

\* The operations of the application thread.
AppStep ==
    \/ ConnectCall
    \/ RequestPassword
    \/ RequestPasswordEnd
    \/ DisconnectBegin
    \/ \E answer \in HttpAnswers : DisconnectEnd(answer)
    \/ \E answer \in HttpAnswers : SendMessage("hello", answer)
    \/ UdpPushMessage("hello")
    \/ \E answer \in UdpAnswers : UdpPull(answer)
    \/ \E answer \in HttpAnswers : GetActiveAgents(answer)
    \/ \E answer \in HttpAnswers, agents \in AgentLists : IsHostAgent(answer, agents)
    \/ \E answer \in ReceiveAnswers : Receive(answer)
    \/ ReceiveAsync

\* The operations that write what the pump thread reads (the session, the
\* ready flag, the secrets, initial_receive_config, the thread itself).
LifecycleStep ==
    \/ \E cid \in ChannelIds \cup {NULL}, name \in ChannelNames \cup {NULL},
          pw \in ChannelPasswords \cup {NULL} :
           /\ (cid # NULL) # (name # NULL /\ pw # NULL)
           /\ (name = NULL) = (pw = NULL)
           /\ \E o \in ConnectOutcomes(cid, name, pw) :
                 o.createOk /\ Connect(cid, name, pw, FALSE, TRUE, o.answer, o.md)
    \/ RequestPasswordEnd
    \/ DisconnectBegin
    \/ \E answer \in HttpAnswers : DisconnectEnd(answer)
    \/ ReceiveAsync

Next == AppStep \/ PumpStep

\* The whole program: the application thread and the pump thread.
Spec == Init /\ [][Next]_vars

\* The application thread alone: every sequence of operations.
AppSpec == Init /\ [][AppStep]_vars

\* The pump thread interleaved with the operations that write what it reads.
PumpSpec == Init /\ [][LifecycleStep \/ PumpStep]_vars

\* The pump thread is scheduled again and again, and its requests and sleeps end.
FairPumpSpec == PumpSpec /\ WF_vars(PumpStep)

\* The threads of an application that call connect with the channel's name
\* and password at the same time, and disconnect.
ConnectorStep ==
    \/ \E t \in ConnectThreads, checkLast \in BOOLEAN :
          ConnectBegin(t, "ch", "pw", checkLast)
    \/ \E t \in ConnectThreads :
          \E o \in ConnectOutcomes(NULL, "ch", "pw") :
             ConnectEnd(t, o.createOk, o.answer, o.md)
    \/ DisconnectBegin
    \/ \E answer \in HttpAnswers : DisconnectEnd(answer)

ConnectorSpec == Init /\ [][ConnectorStep]_vars

\* A /pull answer with an ephemeral event, a password-request and an event
\* encrypted under a key this agent does not hold.
FaultyPull ==
    [kind |-> "data",
     events |-> <<EventAt(Event("password-request", "*", FALSE,
                                PasswordRequestContent("REQ2", "PUB_OLD")),
                          ConnectDate + 1),
                  EventAt(EvWrongKey, ConnectDate + 1)>>,
     ephemeralEvents |-> <<EventAt(EvPlain, ConnectDate)>>,
     nextGlobalOffset |-> 1, nextLocalOffset |-> NoOff]

\* The /pull answers of a pump whose handler, decryption and policy callback
\* fail: none, nothing new, the faulty one, and a single good event.
FaultAnswers ==
    {a \in PullAnswers :
        \/ a.kind # "data"
        \/ /\ a.events \in {<<>>, <<EvGood>>} /\ a.ephemeralEvents = <<>>
           /\ a.nextGlobalOffset = 1 /\ a.nextLocalOffset = NoOff}
    \cup {FaultyPull}

\* The application of that pump: it connects with the name and password,
\* sets a policy callback, starts the pump and disconnects.
FaultStep ==
    \/ \E answer \in ConnectAnswers :
          Connect(NULL, "ch", "pw", FALSE, TRUE, answer, NoServerState)
    \/ \E h \in {"returns_true", "raises"} : SetPasswordRequestHandler(h)
    \/ DisconnectBegin
    \/ \E answer \in {"success", "error"} : DisconnectEnd(answer)
    \/ ReceiveAsync

\* The pump thread with a handler that may raise.
FaultPumpStep ==
    \/ PumpInit
    \/ PumpLoop
    \/ PumpReceiveCheck
    \/ PumpSend
    \/ \E answer \in FaultAnswers : PumpAnswer(answer)
    \/ \E eo \in HandlerOutcomes, po \in HandlerOutcomes : PumpProcess(eo, po)
    \/ PumpSleep

FaultSpec == Init /\ [][FaultStep \/ FaultPumpStep]_vars

\* The pump thread is scheduled again and again.
FairFaultSpec == FaultSpec /\ WF_vars(FaultPumpStep)

\* The passwords an application tries for the channel: the right one and a
\* wrong one.
TriedPasswords == ChannelPasswords \cup {"pw2"}

\* An application that connects by name with one of these passwords or by
\* channel id, sends over HTTP and over UDP, and disconnects.
SenderStep ==
    \/ \E pw \in TriedPasswords, answer \in ConnectAnswers :
          Connect(NULL, "ch", pw, FALSE, TRUE, answer, NoServerState)
    \/ \E answer \in ConnectAnswers :
          Connect("C1", NULL, NULL, FALSE, TRUE, answer, NoServerState)
    \/ RequestPasswordEnd
    \/ \E answer \in HttpAnswers : SendMessage("hello", answer)
    \/ UdpPushMessage("hello")
    \/ DisconnectBegin
    \/ \E answer \in HttpAnswers : DisconnectEnd(answer)

SenderSpec == Init /\ [][SenderStep]_vars

\* The state after construction when no earlier run has saved a session.
FreshInit == Init /\ store = [k \in StoreKeys |-> NULL]

\* An application that holds one session after the other on one
\* AgentConnection: the first by name and password, where it starts the pump,
\* and after it the later ones by channel id, each of them while the pump is
\* in its sleep or waits for the answer to a pull.  The recovery store, empty
\* at the start, tells them apart: the first session saves its id under the
\* name, a later one under the channel id.
InLaterSession == IsReady /\ store["C1"] # NULL
ReconnectStep ==
    \/ \E answer \in ConnectAnswers :
          /\ store["ch"] = NULL
          /\ Connect(NULL, "ch", "pw", FALSE, TRUE, answer, NoServerState)
    \/ \E answer \in ConnectAnswers, md \in ServerStates :
          /\ store["ch"] # NULL
          /\ pumpPc \in {"sleep", "rwait"}
          /\ answer.sid = NULL => md = NoServerState
          /\ Connect("C1", NULL, NULL, FALSE, TRUE, answer, md)
    \/ (IsReady /\ store["C1"] = NULL /\ ReceiveAsync)
    \/ DisconnectBegin
    \/ \E answer \in HttpAnswers : DisconnectEnd(answer)

ReconnectSpec == FreshInit /\ [][ReconnectStep \/ PumpStep]_vars

\* receive_async(handler) called by thread t, the test of _receive_thread:
\* the thread goes on to create the worker or returns.
ReceiveAsyncCheck(t) ==
    /\ asyncPc[t] = "idle"
    /\ asyncPc' = [asyncPc EXCEPT ![t] = IF NoThread THEN "create" ELSE "idle"]
    /\ lastOp' = "receive_async"
    /\ lastResult' = IF NoThread THEN "pending" ELSE "none"
    /\ wire' = <<>>
    /\ UNCHANGED <<agentVars, apiVars, appPc, call_key, pumpVars, receive_thread,
                   pumpStarts, store, httpVars, connectorVars, connects, cryptoVars>>

\* The same call from the assignment on: it stores a new Thread in
\* _receive_thread and starts it.
ReceiveAsyncStart(t) ==
    /\ asyncPc[t] = "create"
    /\ asyncPc' = [asyncPc EXCEPT ![t] = "idle"]
    /\ receive_thread' = TRUE
    /\ pumpStarts' = Min(pumpStarts + 1, MaxStarts)
    /\ pumpPc' = "init"
    /\ raw' = NoAnswer
    /\ resp' = NoResult
    /\ handled' = <<>>
    /\ pullSid' = NoPull
    /\ pump_wire' = <<>>
    /\ caught' = {}
    /\ lastOp' = "receive_async"
    /\ lastResult' = "none"
    /\ wire' = <<>>
    /\ UNCHANGED <<agentVars, apiVars, appPc, call_key, offset_range, store,
                   httpVars, connectorVars, connects, cryptoVars>>

\* Two threads of an application that call receive_async at the same time on
\* a connection the application connects by name and password; the pump
\* steps are those of the worker started last.
StarterStep ==
    \/ \E answer \in ConnectAnswers :
          Connect(NULL, "ch", "pw", FALSE, TRUE, answer, NoServerState)
    \/ \E t \in ConnectThreads : ReceiveAsyncCheck(t)
    \/ \E t \in ConnectThreads : ReceiveAsyncStart(t)

StarterSpec == FreshInit /\ [][StarterStep \/ PumpStep]_vars

\* ------------------------------------------------- password exchange slice

\* The dates the server gives the reserved events: not after and after the
\* date of the /connect answer.
EventDates == {ConnectDate, ConnectDate + 1}

\* password-request events of the other agent, and one without a public key.
PasswordRequestEvents ==
    {EventAt(Event("password-request", "*", FALSE,
                   PasswordRequestContent("REQ2", PublicKeyOf("PRIV2"))), d) : d \in EventDates}
    \cup {EventAt(Event("password-request", "*", FALSE, Text("{}")), ConnectDate + 1)}

\* password-reply events: the ciphertext raw or wrapped with a requestId, made
\* for the pending key or another, with {channelName, channelPassword} or the
\* bare password inside, addressed to this agent or not.
PasswordReplyEvents ==
    {EventAt(Event("password-reply", MyAgentName, FALSE, c), d) :
        c \in {RsaEncrypt(PublicKeyOf("PRIV"), "ch", "pw"),
               Wrapped("REQ", RsaEncrypt(PublicKeyOf("PRIV"), "ch", "pw")),
               Wrapped("OTHER", RsaEncrypt(PublicKeyOf("PRIV"), "ch", "pw")),
               RsaEncrypt(PublicKeyOf("PRIV"), NULL, "pw")},
        d \in EventDates}
    \cup {EventAt(Event("password-reply", MyAgentName, FALSE,
                        RsaEncrypt(PublicKeyOf("PRIV2"), "ch", "pw")), ConnectDate + 1),
          EventAt(Event("password-reply", OtherAgentName, FALSE,
                        RsaEncrypt(PublicKeyOf("PRIV"), "ch", "pw")), ConnectDate + 1)}

\* A /pull answer that fails, and the one that carries the event ev.
FailedPull ==
    [kind |-> "error", events |-> <<>>, ephemeralEvents |-> <<>>,
     nextGlobalOffset |-> NoOff, nextLocalOffset |-> NoOff]
PullWith(ev) ==
    [kind |-> "data", events |-> <<ev>>, ephemeralEvents |-> <<>>,
     nextGlobalOffset |-> 1, nextLocalOffset |-> NoOff]

\* A /pull answer with an ephemeral event and two events, one of them a
\* password-request.
MixedPull ==
    [kind |-> "data",
     events |-> <<EventAt(Event("password-request", "*", FALSE,
                                PasswordRequestContent("REQ2", PublicKeyOf("PRIV2"))),
                          ConnectDate + 1),
                  EventAt(EvGood, ConnectDate + 1)>>,
     ephemeralEvents |-> <<EventAt(EvPlain, ConnectDate)>>,
     nextGlobalOffset |-> 1, nextLocalOffset |-> NoOff]

\* The /pull answers a requester gets, and those a responder gets.
ReplyAnswers == {FailedPull} \cup {PullWith(ev) : ev \in PasswordReplyEvents}
RequestAnswers ==
    {FailedPull, MixedPull} \cup {PullWith(ev) : ev \in PasswordRequestEvents}

\* The /connect answers of the slice: with and without a date.
PasswordConnectAnswers ==
    {[kind |-> "transport", sid |-> NULL, date |-> NoTime]}
    \cup [kind : {"success"}, sid : Sessions, date : {ConnectDate, NoTime}]

\* The state after construction when no earlier run has saved a session.

\* The application thread of a requester: it connects by channel id, asks for
\* the password, receives, disconnects and starts the pump.
RequesterStep ==
    \/ \E answer \in PasswordConnectAnswers :
          Connect("C1", NULL, NULL, FALSE, TRUE, answer, NoServerState)
    \/ RequestPassword
    \/ RequestPasswordEnd
    \/ \E answer \in ReplyAnswers : Receive(answer)
    \/ DisconnectBegin
    \/ \E answer \in {"success", "error"} : DisconnectEnd(answer)
    \/ ReceiveAsync

\* The pump thread of a requester.
RequesterPumpStep ==
    \/ PumpInit
    \/ PumpLoop
    \/ PumpReceiveCheck
    \/ PumpSend
    \/ \E answer \in ReplyAnswers : PumpAnswer(answer)
    \/ PumpProcess("returns", "returns")
    \/ PumpSleep

\* Both threads of an agent that asks for the channel password.
RequesterSpec == FreshInit /\ [][RequesterStep \/ RequesterPumpStep]_vars

\* The application thread of a responder: it connects by name and password or
\* by channel id, sets the policy callback, sends, receives, disconnects and
\* starts the pump.
ResponderStep ==
    \/ \E answer \in PasswordConnectAnswers :
          \/ Connect("C1", NULL, NULL, FALSE, TRUE, answer, NoServerState)
          \/ Connect(NULL, "ch", "pw", FALSE, TRUE, answer, NoServerState)
    \/ \E h \in Handlers : SetPasswordRequestHandler(h)
    \/ RequestPasswordEnd
    \/ SendMessage("hello", "success")
    \/ UdpPushMessage("hello")
    \/ \E answer \in RequestAnswers : Receive(answer)
    \/ DisconnectBegin
    \/ \E answer \in {"success", "error"} : DisconnectEnd(answer)
    \/ ReceiveAsync

\* The pump thread of a responder.
ResponderPumpStep ==
    \/ PumpInit
    \/ PumpLoop
    \/ PumpReceiveCheck
    \/ PumpSend
    \/ \E answer \in RequestAnswers : PumpAnswer(answer)
    \/ PumpProcess("returns", "returns")
    \/ PumpSleep

\* Both threads of an agent that answers password requests.
ResponderSpec == FreshInit /\ [][ResponderStep \/ ResponderPumpStep]_vars

\* ------------------------------------------------------------------ claims

Connected == ready_state /\ session_id # NULL
DisconnectReturnedTrue == lastOp = "disconnect" /\ lastResult = "true"

\* C1: after disconnect() has returned true the session id, the channel
\* secret, the pending RSA private key and the pending request id are null and
\* the UDP socket is closed.
C1_DisconnectClearsAll ==
    DisconnectReturnedTrue =>
        /\ session_id = NULL
        /\ channel_secret = NULL
        /\ pending_private_key = NULL
        /\ pending_request_id = NULL
        /\ udp_closed

\* C2: a connect call on a READY connection is rejected with the "already
\* connected" error: it sends no request and leaves the session id, the
\* channel credentials and the channel secret as they were.
C2_ConnectWhileReadyRejected ==
    [][(Connected /\ ConnectCall) =>
          /\ lastResult' = "raised"
          /\ wire' = <<>>
          /\ UNCHANGED <<session_id, channel_name, channel_password, channel_secret>>]_vars

C2_Witness ==
    /\ Connected
    /\ lastOp = "connect"
    /\ lastResult = "raised"
    /\ wire = <<>>

\* The operations that need a READY connection, and what each returns without.
GuardedCall ==
    \/ \E answer \in HttpAnswers : SendMessage("hello", answer)
    \/ \E answer \in ReceiveAnswers : Receive(answer)
    \/ UdpPushMessage("hello")
    \/ \E answer \in UdpAnswers : UdpPull(answer)
    \/ \E answer \in HttpAnswers : GetActiveAgents(answer)
    \/ \E answer \in HttpAnswers, agents \in AgentLists : IsHostAgent(answer, agents)
    \/ RequestPassword
    \/ DisconnectBegin
NegativeValue(op) ==
    IF op \in {"receive", "udp_pull", "get_active_agents"} THEN "none" ELSE "false"

\* C3: while the connection is not READY, send_message, receive,
\* udp_push_message, udp_pull, get_active_agents, is_host_agent,
\* request_password and disconnect return false (or null) and send neither an
\* HTTP request nor a UDP datagram.
C3_NotReadyNothingOnTheWire ==
    [][(~Connected /\ GuardedCall) =>
          /\ lastResult' = NegativeValue(lastOp')
          /\ wire' = <<>>]_vars

C3_Witness ==
    /\ ~ready_state
    /\ session_id # NULL
    /\ lastOp = "send_message"
    /\ lastResult = "false"
    /\ wire = <<>>

\* The events of an answer in the order the pump hands them to the handler.
AnswerEvents(answer) == answer.ephemeralEvents \o answer.events
DecryptFails(ev) ==
    /\ DecryptAndVerify(ev.content, api_channel_secret) = NULL
    /\ DecryptAndVerify(ev.content, channel_secret) = NULL

\* C4: every encrypted event of a pull response whose decrypt-and-verify
\* fails reaches the handler untouched: still encrypted, with the original
\* ciphertext as content.
C4_FailedDecryptDeliveredUntouched ==
    [][(pumpPc = "process" /\ pumpPc' # "process") =>
          \A i \in 1..Len(AnswerEvents(raw)) :
              (AnswerEvents(raw)[i].encrypted /\ DecryptFails(AnswerEvents(raw)[i]))
                  => /\ i <= Len(handled')
                     /\ handled'[i] = AnswerEvents(raw)[i]]_vars

PumpRunning == pumpPc \notin {"none", "done"}

\* C5: when disconnect() has returned true while a pump is running, the pump
\* leaves its loop and terminates, unless the connection is connected again.
C5_PumpEndsAfterDisconnect ==
    (DisconnectReturnedTrue /\ PumpRunning) ~> (pumpPc = "done" \/ Connected)

C5_Witness ==
    /\ DisconnectReturnedTrue
    /\ ~Connected
    /\ pumpPc = "done"
    /\ offset_range.globalOffset = 1

\* C6: once disconnect() has returned true the pump posts no further /pull,
\* whatever the interleaving of the two threads.
C6_NoPullAfterDisconnect ==
    [][(DisconnectReturnedTrue /\ ~Connected) =>
          ~(pumpPc = "rsend" /\ pumpPc' = "rwait")]_vars

\* C7: receive_async calls made one after another start at most one pump
\* worker.
C7_AtMostOnePump == pumpStarts <= 1

\* A receive_async call on a connected agent whose pump has ended already:
\* the thread was started by an earlier call.
C7_Witness ==
    /\ lastOp = "receive_async"
    /\ Connected
    /\ pumpPc = "done"
    /\ pumpStarts = 1

\* C8: after receive_async has been called on a READY connection a pump
\* worker is running.
C8_ReceiveAsyncStartsPump ==
    (lastOp = "receive_async" /\ Connected) => PumpRunning

LexLeq(a, b) ==
    \/ a.globalOffset < b.globalOffset
    \/ a.globalOffset = b.globalOffset /\ a.localOffset <= b.localOffset

Carried(config, result) ==
    [globalOffset |-> IF result.nextGlobalOffset = NoOff THEN config.globalOffset
                      ELSE result.nextGlobalOffset,
     localOffset |-> IF result.nextLocalOffset = NoOff THEN config.localOffset
                     ELSE result.nextLocalOffset]

C10_OffsetsPromotedAfterEveryPull ==
    [][(pumpPc = "process" /\ pumpPc' # "process") =>
          /\ offset_range'.globalOffset = Carried(offset_range, resp).globalOffset
          /\ offset_range'.localOffset = Carried(offset_range, resp).localOffset]_vars

\* A connect call that the server answers with a session id and the state md.
ConnectAnsweredWith(md) ==
    \E cid \in ChannelIds \cup {NULL}, name \in ChannelNames \cup {NULL},
       pw \in ChannelPasswords \cup {NULL}, checkLast \in BOOLEAN :
      \E o \in ConnectOutcomes(cid, name, pw) :
        /\ o.md = md
        /\ o.answer.kind = "success"
        /\ o.answer.sid # NULL
        /\ ~AlreadyConnected
        /\ Connect(cid, name, pw, checkLast, o.createOk, o.answer, o.md)

\* C11: after a successful connect whose answer carries a channel state with
\* globalOffset g and localOffset l, current_receive_config is (g, l, 20).
C11_CurrentConfigFromState ==
    [][\A md \in ServerStates :
          (md.present /\ ConnectAnsweredWith(md)) =>
              current_receive_config' = ReceiveConfig(md.globalOffset, md.localOffset)]_vars

\* C12: after a successful connect whose answer carries originalGlobalOffset
\* o, initial_receive_config is (o, 0, 20), the offsets a pump starts from.
C12_InitialConfigFromState ==
    [][\A md \in ServerStates :
          (md.present /\ ConnectAnsweredWith(md)) =>
              initial_receive_config' = ReceiveConfig(md.originalGlobalOffset, 0)]_vars

\* The password and the secret of the responder have reached this agent
\* while its request_password call waits.
ReplyApplied ==
    /\ appPc = "pw_wait"
    /\ channel_password = "pw"
    /\ channel_secret = TheSecret

\* C13: when the responder's password-reply has been delivered to the
\* requester before the deadline, request_password returns true, the
\* requester's channel secret is the responder's and its pending private key
\* is null.
C13_PasswordExchangeSucceeds ==
    [][(ReplyApplied /\ RequestPasswordEnd) =>
          /\ lastResult' = "true"
          /\ channel_secret' = TheSecret
          /\ pending_private_key' = NULL]_vars

\* The date of an event is not strictly greater than the connection time.
NotNewer(ev) ==
    ~(connection_time # NoTime /\ ev.date # NoTime /\ ev.date > connection_time)

\* A receive() call, of the pump or of the application, that gets this answer.
ReceiveGets(answer) == PumpAnswer(answer) \/ Receive(answer)

\* C14: a password-reply whose date is not strictly greater than the
\* requester's connectionTime never changes the channel password or the
\* channel secret, whatever /connect answer the session began with.
C14_OldReplyIgnored ==
    [][\A answer \in ReplyAnswers :
          (/\ ReceiveGets(answer)
           /\ \A i \in 1..Len(answer.events) : NotNewer(answer.events[i]))
              => UNCHANGED <<channel_password, channel_secret>>]_vars

\* The content of a reply carries a requestId other than the pending one.
OtherRequestId(ev) ==
    /\ ev.content.kind = "rsa"
    /\ ev.content.m # NULL
    /\ ev.content.m # pending_request_id

\* C15: a password-reply whose content carries a requestId different from the
\* pending one never changes the channel password or the channel secret.
C15_OtherRequestIdIgnored ==
    [][\A answer \in ReplyAnswers :
          (/\ ReceiveGets(answer)
           /\ \A i \in 1..Len(answer.events) : OtherRequestId(answer.events[i]))
              => UNCHANGED <<channel_password, channel_secret>>]_vars

\* A receive() call has sent a password-reply.
ReplySent(answer) ==
    \/ PumpAnswer(answer) /\ pump_wire' # <<>>
    \/ Receive(answer) /\ Len(wire') > 1

\* C16: a responder sends a password-reply only if no policy callback is set
\* or the callback returned true, and it holds both the channel name and the
\* channel password.
C16_ReplyOnlyIfAllowed ==
    [][\A answer \in RequestAnswers :
          ReplySent(answer) =>
              /\ password_request_handler \in {"none", "returns_true"}
              /\ channel_name # NULL
              /\ channel_password # NULL]_vars

\* C17: the pending private key and the pending request id are set and
\* cleared together, and both are null whenever no request_password call is
\* in progress: after it has returned and after disconnect has returned.
C17_PendingClearedOnReturn ==
    /\ (pending_private_key = NULL) = (pending_request_id = NULL)
    /\ appPc \notin {"pw_wait", "connect_pw_wait"} =>
          (pending_private_key = NULL /\ pending_request_id = NULL)

\* request_password has sent its request, waited and returned false.
C17_Witness ==
    /\ appPc = "idle"
    /\ lastOp = "request_password"
    /\ lastResult = "false"
    /\ wire = <<PasswordRequestPush(session_id)>>
    /\ pending_private_key = NULL
    /\ pending_request_id = NULL

\* C18: a non-empty channel secret is the secret derived from the channel
\* name and the channel password the connection holds.
C18_SecretDerivedFromCredentials ==
    channel_secret # NULL =>
        /\ channel_name # NULL
        /\ channel_password # NULL
        /\ channel_secret = DeriveChannelSecret(channel_name, channel_password)

\* What an observer of the wire reads in a content without any key.
ClearStrings(content) ==
    CASE content.kind = "text" -> {content.m}
      [] content.kind = "pwreq" -> {content.m, content.cm}
      [] content.kind = "rsa" -> {content.m}
      [] OTHER -> {}
ClearFields(req) ==
    {req.sessionId, req.channelId, req.channelName, req.type}
        \cup ClearStrings(req.content)

ChannelSecrets == {DeriveChannelSecret(n, p) : n \in ChannelNames, p \in ChannelPasswords}

\* A request carries neither the secret nor the password in the clear; a
\* password hash in it is the HMAC of the password under the derived secret,
\* sent to /create-channel or /connect; an RSA ciphertext in it is the content
\* of a password-reply.
Discreet(req) ==
    /\ ClearFields(req) \cap (ChannelSecrets \cup ChannelPasswords) = {}
    /\ req.channelPassword # NoHash =>
          /\ req.path \in {"/create-channel", "/connect"}
          /\ req.channelPassword.hk = DeriveChannelSecret(req.channelName,
                                                          req.channelPassword.hm)
    /\ req.content.kind = "rsa" => req.type = "password-reply"

\* C19: no outbound request or datagram carries the derived channel secret,
\* and the channel password leaves the agent only as HMAC(password, secret)
\* on /create-channel and /connect or RSA-encrypted inside a password-reply.
C19_SecretNeverOnTheWire ==
    /\ \A i \in 1..Len(wire) : Discreet(wire[i])
    /\ \A i \in 1..Len(pump_wire) : Discreet(pump_wire[i])

\* The pump of a responder that holds the secret has sent a password-reply.
C19_Witness ==
    /\ channel_secret = TheSecret
    /\ Len(pump_wire) = 1
    /\ pump_wire[1].type = "password-reply"
    /\ pump_wire[1].content.hm = "pw"

\* The connection times of the listed agents are pairwise distinct.
DistinctTimes(agents) ==
    \A i, j \in 1..Len(agents) :
        i # j => agents[i].connectionTime # agents[j].connectionTime

\* This agent is listed with the smallest connection time.
IsEarliest(agents) ==
    \E i \in 1..Len(agents) :
        /\ agents[i].agentName = MyAgentName
        /\ \A j \in 1..Len(agents) :
              agents[i].connectionTime <= agents[j].connectionTime

\* C20: for a list of active agents with pairwise distinct connection times
\* is_host_agent returns true on the agent with the smallest connectionTime
\* and false on every other agent.
C20_HostIsEarliest ==
    [][\A agents \in AgentLists :
          (/\ Connected
           /\ Len(agents) > 0
           /\ DistinctTimes(agents)
           /\ IsHostAgent("success", agents))
              => (lastResult' = "true") = IsEarliest(agents)]_vars

\* ------------------------------------------------------------------ C21

\* The requests that left the throttle in the second that ends now.
RECURSIVE PassedSince(_)
PassedSince(i) == IF i < 0 THEN 0 ELSE passed[i] + PassedSince(i - 1)

\* C21: whatever the request times, at most 12 HTTP requests pass the throttle
\* within any interval of one second of wall-clock time.
C21_AtMostLimitPerSecond == PassedSince(TicksPerSecond - 1) <= requests_limit

\* ------------------------------------------------------------------ C22

\* A connect call without any target, and one with a channel id and also a
\* channel name and password.
NeitherGiven(cid, name, pw) == cid = NULL /\ name = NULL /\ pw = NULL
BothGiven(cid, name, pw) == cid # NULL /\ name # NULL /\ pw # NULL

\* C22: a connect call that gives neither a channelId nor a channelName with
\* a channelPassword, and a call that gives both, is rejected (it returns
\* false or raises) and does not make the connection READY.
C22_ExactlyOneTargetRequired ==
    [][\A cid \in ChannelIds \cup {NULL}, name \in ChannelNames \cup {NULL},
          pw \in ChannelPasswords \cup {NULL}, checkLast \in BOOLEAN :
          \A o \in ConnectOutcomes(cid, name, pw) :
             (/\ Connect(cid, name, pw, checkLast, o.createOk, o.answer, o.md)
              /\ (NeitherGiven(cid, name, pw) \/ BothGiven(cid, name, pw)))
             => /\ lastResult' \in {"false", "raised"}
                /\ (IsReady' => IsReady)]_vars

\* ------------------------------------------------------------------ C23

\* C23: only one session is active per AgentConnection: between two
\* successful disconnects at most one connect call succeeds, however the
\* connect calls of different threads interleave.
C23_OneSessionBetweenDisconnects == connects <= 1

\* ------------------------------------------------------------------ C24

\* C24: a connect call with checkLastSession enabled sends on /connect the
\* session id the recovery store holds under the call's key (the channelId,
\* else the channelName), and none when the store has no entry for that key,
\* whatever connects and disconnects came before.
C24_ReconnectHintFromStore ==
    [][\A cid \in ChannelIds \cup {NULL}, name \in ChannelNames \cup {NULL},
          pw \in ChannelPasswords \cup {NULL} :
          \A o \in ConnectOutcomes(cid, name, pw) :
             Connect(cid, name, pw, TRUE, o.createOk, o.answer, o.md)
             => \A i \in 1..Len(wire') :
                   wire'[i].path = "/connect"
                   => wire'[i].sessionId = store[IF cid # NULL THEN cid ELSE name]]_vars

\* ------------------------------------------------------------------ C25

\* C25: when /create-channel fails, a connect with a channel name and
\* password still posts /connect with the channelName and the hashed
\* channelPassword and without a channelId, and the call succeeds exactly
\* when /connect answers with a session.
C25_CreateChannelFailureFallsBack ==
    [][\A name \in ChannelNames, pw \in ChannelPasswords, checkLast \in BOOLEAN :
          \A o \in ConnectOutcomes(NULL, name, pw) :
             (/\ ~AlreadyConnected
              /\ ~o.createOk
              /\ Connect(NULL, name, pw, checkLast, o.createOk, o.answer, o.md))
             => /\ Len(wire') = 2
                /\ wire'[1].path = "/create-channel"
                /\ wire'[2].path = "/connect"
                /\ wire'[2].channelId = NULL
                /\ wire'[2].channelName = name
                /\ wire'[2].channelPassword = Hash(pw, DeriveChannelSecret(name, pw))
                /\ lastResult' = IF o.answer.kind = "success" /\ o.answer.sid # NULL
                                 THEN "true" ELSE "false"]_vars

\* A connect that succeeded although /create-channel had failed.
C25_Witness ==
    /\ lastOp = "connect"
    /\ lastResult = "true"
    /\ Len(wire) = 2
    /\ wire[1].path = "/create-channel"
    /\ wire[2].path = "/connect"
    /\ wire[2].channelId = NULL
    /\ wire[2].channelName = "ch"

\* ------------------------------------------------------------------ C26

\* C26: while READY, udp_pull returns an EventMessageResult without events,
\* never None and never an exception, when the answer has an outer status
\* other than ok or an inner status other than success, and when no answer
\* comes within the timeout.
C26_UdpPullFailureIsEmpty ==
    [][\A answer \in UdpAnswers :
          (IsReady /\ answer.kind # "data" /\ UdpPull(answer))
          => lastResult' = "empty"]_vars

\* udp_pull returned an empty result on a connection that is READY.
C26_Witness ==
    /\ lastOp = "udp_pull"
    /\ lastResult = "empty"
    /\ IsReady
    /\ ~udp_closed

\* ------------------------------------------------------------------ C27

\* C27: while READY, send_message(text) posts one /push of type chat-text
\* whose encrypted flag is true exactly when the connection's channel secret
\* is set; when it is true the content decrypts and verifies under the
\* connection's channel secret to the text, otherwise it is the text itself.
C27_SendMessageMatchesSecret ==
    [][\A answer \in HttpAnswers :
          (IsReady /\ SendMessage("hello", answer))
          => /\ Len(wire') = 1
             /\ wire'[1].path = "/push"
             /\ wire'[1].type = "chat-text"
             /\ wire'[1].encrypted = (channel_secret # NULL)
             /\ IF wire'[1].encrypted
                THEN DecryptAndVerify(wire'[1].content, channel_secret) = "hello"
                ELSE wire'[1].content = Text("hello")]_vars

\* ------------------------------------------------------------------ C28

\* C28: udp_push_message sends a datagram of type chat-text that is marked
\* encrypted, with the content encrypted under the channel secret, exactly
\* when a secret is known, and that is not marked encrypted when none is
\* known.  The secret is the one the transport holds, the key of udp_push.
C28_UdpPushMarkedAsEncrypted ==
    [][(IsReady /\ ~udp_closed /\ UdpPushMessage("hello"))
       => /\ Len(wire') = 1
          /\ wire'[1].path = "udp push"
          /\ wire'[1].type = "chat-text"
          /\ wire'[1].encrypted = (api_channel_secret # NULL)
          /\ (wire'[1].encrypted
              => DecryptAndVerify(wire'[1].content, api_channel_secret) = "hello")]_vars

\* ------------------------------------------------------------------ C29

\* The event the handler got is the event the server sent: decryption only
\* rewrites the content and the encrypted flag.
SameEvent(given, sent) ==
    /\ given.type = sent.type
    /\ given.to = sent.to
    /\ given.from = sent.from
    /\ given.date = sent.date

\* C29: of every pull response the pump processes, the handler gets all the
\* ephemeral events before any persistent event, each array in the order of
\* the server, and no event is dropped, password-request and password-reply
\* events included.
C29_EphemeralFirstNothingDropped ==
    [][PumpProcess("returns", "returns")
       => LET n == Len(raw.ephemeralEvents) IN
          /\ Len(handled') = n + Len(raw.events)
          /\ \A i \in 1..n : SameEvent(handled'[i], raw.ephemeralEvents[i])
          /\ \A i \in 1..Len(raw.events) :
                SameEvent(handled'[n + i], raw.events[i])]_vars

\* The handler got an ephemeral event, a password-request and a chat-text.
C29_Witness ==
    /\ Len(handled) = 3
    /\ handled[1].date = ConnectDate
    /\ handled[2].type = "password-request"
    /\ handled[3].type = "chat-text"

\* ------------------------------------------------------------------ C30

C31_SleepBetweenPulls ==
    [][(pumpPc \in {"rwait", "process"} /\ pumpPc' \notin {"rwait", "process"})
       => pumpPc' = "sleep"]_vars

\* ------------------------------------------------------------------ C32

C33_PasswordRequestedAsynchronously ==
    [][(/\ lastOp' = "connect"
        /\ \E i \in 1..Len(wire') : wire'[i].type = "password-request")
       => /\ appPc' = "idle"
          /\ lastResult' = "true"
          /\ pending_request_id' # NULL]_vars

\* C34: for every plaintext m and keys k # k', decrypt_and_verify of
\* encrypt_and_sign(m, k) is m under k and None under k'.
C34_RoundTripOnlyUnderTheKey ==
    (sealInput # NoInput /\ openKey # NULL)
    => IF openKey = sealInput.key THEN opened = sealInput.m ELSE opened = NULL

\* C35: whenever the connection is READY and no call is in progress, the UDP
\* socket is open: only a disconnect that returns true closes it, and it is
\* open again after a later successful connect.
C35_SocketOpenWhileReady ==
    (appPc = "idle" /\ IsReady) => ~udp_closed

\* C36: a disconnect() of a READY connection that returns false changes
\* nothing: the AgentConnection keeps its session id and stays READY, and the
\* transport keeps its session id and its ready state.
C36_FailedDisconnectChangesNothing ==
    [][(appPc = "disc_wait" /\ appPc' = "idle" /\ lastResult' = "false")
       => /\ IsReady'
          /\ UNCHANGED <<session_id, ready_state, api_session_id, api_ready_state>>]_vars

\* C37: whenever the connection is READY and no call is in progress, the
\* channel secret of the AgentConnection equals the channel secret of the
\* transport.
C37_SecretsAgree ==
    (appPc = "idle" /\ IsReady) => channel_secret = api_channel_secret

\* C38: a pump started during one session issues no pull in a later session:
\* after a disconnect and a new successful connect, the pump of the first
\* session posts no /pull under the new session.
C38_OldPumpNeverPullsInLaterSession ==
    [][(pumpPc = "rsend" /\ pumpPc' = "rwait") => ~InLaterSession]_vars

\* C39: whatever the interleaving of two threads that call receive_async on
\* one AgentConnection, at most one pump worker is started.
C39_AtMostOneWorker ==
    pumpStarts <= 1

============================================================================
